---- MODULE Spec2Model ----
(***************************************************************************)
(* Model of the aws-costs TUI: App::new, App::load_data, App::run and      *)
(* App::handle_input (src/src/ui/app.rs), with the parts of the Cost       *)
(* Explorer client they consume (src/src/aws/cost_explorer.rs).            *)
(*                                                                         *)
(* Costs are integers in thousandths of a currency unit.  Service names    *)
(* are small integers.  Option<T> is a sequence of length 0 or 1.          *)
(***************************************************************************)
EXTENDS Integers, Sequences, FiniteSets, TLC

VARIABLES
    current_month,   \* Option<CostData>
    previous_month,  \* Option<CostData>
    monthly_trend,   \* Vec<CostData>
    selected_tab,    \* usize
    selected_row,    \* usize
    error,           \* Option<String>
    loading,         \* bool
    should_quit,     \* bool
    pc,              \* position of main's thread in run_tui_mode
    raw_mode,        \* terminal: raw mode is on
    alt_screen,      \* terminal: alternate screen is shown
    raw_disables,    \* terminal: number of successful disable_raw_mode calls
    alt_leaves,      \* terminal: number of successful LeaveAlternateScreen writes
    result,          \* Option<Result<()>> returned by App::run
    fetched,         \* client: the calls load_data has made, with their outcomes
    last_event,      \* crossterm: the outcome of the last poll/read in handle_input
    screen,          \* terminal: Option<frame>, the frame last drawn
    arg,             \* Option<call>: a function called on its own, with its arguments
    ret              \* Option<value>: what that call returned

vars == <<current_month, previous_month, monthly_trend, selected_tab,
          selected_row, error, loading, should_quit, pc, raw_mode,
          alt_screen, raw_disables, alt_leaves, result, fetched, last_event,
          screen, arg, ret>>

data_vars == <<current_month, previous_month, monthly_trend, error, loading>>
nav_vars  == <<selected_tab, selected_row, should_quit>>
term_vars == <<raw_mode, alt_screen, raw_disables, alt_leaves>>
fn_vars   == <<arg, ret>>

----------------------------------------------------------------------------
(* Bounds on the inputs *)

\* current/previous month responses carry 0..MaxBreakdown billable services
MaxBreakdown == 2
\* each month of the trend carries TrendWidth billable services
TrendWidth == 4

(* Program constants *)

\* `cost > 0.001` in thousandths
CostThreshold == 1
\* `.take(8)`
TopServices == 8
\* `client.get_monthly_trend(6)`
TrendMonths == 6
\* `% 3`, the number of tabs
NumTabs == 3

\* the sets of months whose fetch fails inside get_monthly_trend: every month
\* from some month back (the account has no older data), or the current
\* month alone
FailedMonthSets ==
    {k..(TrendMonths - 1) : k \in 0..TrendMonths} \cup {{0}}

None == <<>>
Some(x) == <<x>>

Min(a, b) == IF a < b THEN a ELSE b
Max(a, b) == IF a > b THEN a ELSE b

----------------------------------------------------------------------------
(* The Cost Explorer responses the client may receive *)

\* UnblendedCost amount of a service, in thousandths; several services tie
Amount(s) == ((s % 3) + 1) * 500

\* groups of one response: n billable services from lo on, then one group
\* whose amount (0.001) is not above the threshold
Response(lo, n) ==
    [i \in 1..(n + 1) |->
        IF i <= n THEN [service |-> lo + i - 1, cost |-> Amount(lo + i - 1)]
                  ELSE [service |-> 0, cost |-> CostThreshold]]

----------------------------------------------------------------------------
(* cost_explorer.rs *)

RECURSIVE SumCost(_)
SumCost(s) == IF s = <<>> THEN 0 ELSE s[1].cost + SumCost(Tail(s))

\* |a, b| b.cost.partial_cmp(&a.cost): a sorts strictly before b when its
\* cost is the greater one (descending by cost)
CostDescending(a, b) == a.cost > b.cost

\* slice::sort_by is stable: elements are placed left to right, and each goes
\* after every element it does not sort strictly before
\* variant: an element goes before the elements it is equal to
RECURSIVE InsertByBeforeEqual(_, _)
InsertByBeforeEqual(x, s) ==
    IF s = <<>> THEN <<x>>
    ELSE IF ~CostDescending(s[1], x) THEN <<x>> \o s
    ELSE <<s[1]>> \o InsertByBeforeEqual(x, Tail(s))

RECURSIVE InsertBy(_, _)
InsertBy(x, s) ==
    IF s = <<>> THEN <<x>>
    ELSE IF CostDescending(x, s[1]) THEN <<x>> \o s
    ELSE <<s[1]>> \o InsertBy(x, Tail(s))

RECURSIVE sort_by(_)
sort_by(s) ==
    IF s = <<>> THEN <<>>
    ELSE InsertBy(s[Len(s)], sort_by(SubSeq(s, 1, Len(s) - 1)))

\* (service.cost / total_cost) * 100.0 as the exact fraction num / den, 0.0
\* when total_cost is not above 0.0
compute_percentage(cost, total_cost) ==
    IF total_cost > 0 THEN [num |-> cost * 100, den |-> total_cost]
    ELSE [num |-> 0, den |-> 1]

\* variant: total_cost adds up every group, the filtered ones included
get_costs_for_period_total_of_all(groups, period_name) ==
    LET service_costs == SelectSeq(groups, LAMBDA g : g.cost > CostThreshold)
        total_cost    == SumCost(groups)
    IN  [period     |-> period_name,
         total_cost |-> total_cost,
         breakdown  |-> sort_by(
             [k \in 1..Len(service_costs) |->
                 [service    |-> service_costs[k].service,
                  cost       |-> service_costs[k].cost,
                  percentage |-> compute_percentage(
                                    service_costs[k].cost, total_cost)]])]

\* groups: the (service, amount) groups of the response, in response order
get_costs_for_period(groups, period_name) ==
    LET service_costs == SelectSeq(groups, LAMBDA g : g.cost > CostThreshold)
        total_cost    == SumCost(service_costs)
    IN  [period     |-> period_name,
         total_cost |-> total_cost,
         breakdown  |-> sort_by(
             [k \in 1..Len(service_costs) |->
                 [service    |-> service_costs[k].service,
                  cost       |-> service_costs[k].cost,
                  percentage |-> compute_percentage(
                                    service_costs[k].cost, total_cost)]])]

\* get_monthly_trend(months): month i (0 = the current month) is fetched for
\* i = 0..months-1; a month whose fetch fails is skipped; the vector is
\* reversed at the end.  failed is the set of months whose fetch fails.
RECURSIVE TrendResults(_, _, _)
TrendResults(i, months, failed) ==
    IF i >= months THEN <<>>
    ELSE (IF i \in failed THEN <<>>
          ELSE <<get_costs_for_period(Response(i + 1, TrendWidth), i)>>)
         \o TrendResults(i + 1, months, failed)

Reverse(s) == [i \in 1..Len(s) |-> s[Len(s) + 1 - i]]

get_monthly_trend(months, failed) == Reverse(TrendResults(0, months, failed))

\* chrono: calendar dates, as records of year, month and day

IsLeapYear(y) == (y % 4 = 0 /\ y % 100 # 0) \/ y % 400 = 0

DaysInMonth(y, m) ==
    IF m = 2 THEN (IF IsLeapYear(y) THEN 29 ELSE 28)
    ELSE IF m \in {4, 6, 9, 11} THEN 30 ELSE 31

\* date - Duration::days(n)
RECURSIVE minus_days(_, _)
minus_days(date, n) ==
    IF n < date.day THEN [date EXCEPT !.day = date.day - n]
    ELSE LET y == IF date.month = 1 THEN date.year - 1 ELSE date.year
             m == IF date.month = 1 THEN 12 ELSE date.month - 1
         IN  minus_days([year |-> y, month |-> m, day |-> DaysInMonth(y, m)],
                        n - date.day)

\* the month iteration i of get_monthly_trend asks for, and names the period
\* after: that of target_month = today - Duration::days(30 * i)
target_month(today, i) ==
    LET target == minus_days(today, 30 * i)
    IN  [year |-> target.year, month |-> target.month]

\* get_monthly_trend(months) called on the day today: the result of
\* get_monthly_trend above, each period named by the month it was asked for
get_monthly_trend_on(today, months, failed) ==
    LET results == get_monthly_trend(months, failed)
    IN  [k \in 1..Len(results) |->
            [results[k] EXCEPT
                !.period = target_month(today, results[k].period)]]

----------------------------------------------------------------------------
(* app.rs: derived data *)

saturating_sub(a, b) == IF a > b THEN a - b ELSE 0

RECURSIVE SeqServices(_)
SeqServices(bd) ==
    IF bd = <<>> THEN {} ELSE {bd[1].service} \cup SeqServices(Tail(bd))

RECURSIVE TrendServices(_)
TrendServices(trend) ==
    IF trend = <<>> THEN {}
    ELSE SeqServices(trend[1].breakdown) \cup TrendServices(Tail(trend))

RECURSIVE ServiceCostIn(_, _)
ServiceCostIn(bd, name) ==
    IF bd = <<>> THEN 0
    ELSE (IF bd[1].service = name THEN bd[1].cost ELSE 0)
         + ServiceCostIn(Tail(bd), name)

\* service_totals: the sum of a service's costs over every month
RECURSIVE service_totals(_, _)
service_totals(trend, name) ==
    IF trend = <<>> THEN 0
    ELSE ServiceCostIn(trend[1].breakdown, name)
         + service_totals(Tail(trend), name)

RECURSIVE SortedKeys(_)
SortedKeys(S) ==
    IF S = {} THEN <<>>
    ELSE LET m == CHOOSE x \in S : \A y \in S : x <= y
         IN  <<m>> \o SortedKeys(S \ {m})

\* HashMap::into_iter visits the keys in an unspecified order; the orders
\* drawn here are the ascending and the descending key order
HashIterOrders(S) == {SortedKeys(S), Reverse(SortedKeys(S))}

Take(s, n) == SubSeq(s, 1, Min(n, Len(s)))

\* variant: take(8) is applied before the sort
get_top_services_take_first(trend, order) ==
    LET services == [i \in 1..Len(order) |->
                        [name |-> order[i],
                         cost |-> service_totals(trend, order[i])]]
        top      == sort_by(Take(services, TopServices))
    IN  [i \in 1..Len(top) |-> top[i].name]

\* order is the order in which into_iter yields the map's entries
get_top_services_across_months(trend, order) ==
    LET services == [i \in 1..Len(order) |->
                        [name |-> order[i],
                         cost |-> service_totals(trend, order[i])]]
        sorted   == sort_by(services)
        top      == Take(sorted, TopServices)
    IN  [i \in 1..Len(top) |-> top[i].name]

get_current_breakdown_len(order) ==
    CASE selected_tab = 0 ->
            IF current_month = None THEN 0 ELSE Len(current_month[1].breakdown)
      [] selected_tab = 1 ->
            IF previous_month = None THEN 0 ELSE Len(previous_month[1].breakdown)
      [] selected_tab = 2 ->
            Len(get_top_services_across_months(monthly_trend, order))
      [] OTHER -> 0

----------------------------------------------------------------------------
(* App::new *)

\* App::new(): the fields of a fresh App, and the terminal untouched
AppNew ==
    /\ current_month = None
    /\ previous_month = None
    /\ monthly_trend = <<>>
    /\ selected_tab = 0
    /\ selected_row = 0
    /\ error = None
    /\ loading = TRUE
    /\ should_quit = FALSE
    /\ pc = "load_data"
    /\ raw_mode = FALSE
    /\ alt_screen = FALSE
    /\ raw_disables = 0
    /\ alt_leaves = 0
    /\ result = None
    /\ fetched = <<>>
    /\ last_event = None
    /\ screen = None

Init ==
    /\ AppNew
    /\ arg = None
    /\ ret = None

----------------------------------------------------------------------------
(* App::load_data.  A period is named by its distance in months from the   *)
(* current month.                                                          *)

Call(op, ok, value) == [op |-> op, ok |-> ok, value |-> value]

ErrorMessage == "Failed to load current month"

\* get_current_month_costs() returns Ok(data)
LoadCurrentOk(n) ==
    /\ pc = "load_data"
    /\ LET data == get_costs_for_period(Response(1, n), 0)
       IN  /\ current_month' = Some(data)
           /\ fetched' = Append(fetched, Call("current", TRUE, Some(data)))
    /\ loading' = TRUE
    /\ error' = None
    /\ pc' = "load_previous"
    /\ UNCHANGED <<previous_month, monthly_trend, nav_vars, term_vars,
                   result, last_event>>
    /\ UNCHANGED screen
    /\ UNCHANGED fn_vars
\* variant: the Err arm records the error but does not return
LoadCurrentErrFallsThrough ==
    /\ pc = "load_data"
    /\ fetched' = Append(fetched, Call("current", FALSE, None))
    /\ error' = Some(ErrorMessage)
    /\ loading' = TRUE
    /\ pc' = "load_previous"
    /\ UNCHANGED <<current_month, previous_month, monthly_trend, nav_vars,
                   term_vars, result, last_event>>
    /\ UNCHANGED screen
    /\ UNCHANGED fn_vars

\* get_current_month_costs() returns Err(e): load_data returns early
LoadCurrentErr ==
    /\ pc = "load_data"
    /\ fetched' = Append(fetched, Call("current", FALSE, None))
    /\ error' = Some(ErrorMessage)
    /\ loading' = FALSE
    /\ pc' = "enable_raw"
    /\ UNCHANGED <<current_month, previous_month, monthly_trend, nav_vars,
                   term_vars, result, last_event>>
    /\ UNCHANGED screen
    /\ UNCHANGED fn_vars

\* get_previous_month_costs() returns Ok(data)
LoadPreviousOk(n) ==
    /\ pc = "load_previous"
    /\ LET data == get_costs_for_period(Response(1, n), 1)
       IN  /\ previous_month' = Some(data)
           /\ fetched' = Append(fetched, Call("previous", TRUE, Some(data)))
    /\ pc' = "load_trend"
    /\ UNCHANGED <<current_month, monthly_trend, error, loading, nav_vars,
                   term_vars, result, last_event>>
    /\ UNCHANGED screen
    /\ UNCHANGED fn_vars
\* variant: the Err arm returns from load_data
LoadPreviousErrReturns ==
    /\ pc = "load_previous"
    /\ fetched' = Append(fetched, Call("previous", FALSE, None))
    /\ loading' = FALSE
    /\ pc' = "enable_raw"
    /\ UNCHANGED <<current_month, previous_month, monthly_trend, error,
                   nav_vars, term_vars, result, last_event>>
    /\ UNCHANGED screen
    /\ UNCHANGED fn_vars

\* get_previous_month_costs() returns Err(e): logged, not fatal
LoadPreviousErr ==
    /\ pc = "load_previous"
    /\ fetched' = Append(fetched, Call("previous", FALSE, None))
    /\ pc' = "load_trend"
    /\ UNCHANGED <<current_month, previous_month, monthly_trend, error,
                   loading, nav_vars, term_vars, result, last_event>>
    /\ UNCHANGED screen
    /\ UNCHANGED fn_vars

\* get_monthly_trend(6) returns Ok(data); failed are the months it skipped
LoadTrendOk(failed) ==
    /\ pc = "load_trend"
    /\ LET data == get_monthly_trend(TrendMonths, failed)
       IN  /\ monthly_trend' = data
           /\ fetched' = Append(fetched, Call("trend", TRUE, Some(data)))
    /\ loading' = FALSE
    /\ pc' = "enable_raw"
    /\ UNCHANGED <<current_month, previous_month, error, nav_vars, term_vars,
                   result, last_event>>
    /\ UNCHANGED screen
    /\ UNCHANGED fn_vars
\* variant: loading is cleared in the Ok arm only
LoadTrendErrStillLoading ==
    /\ pc = "load_trend"
    /\ fetched' = Append(fetched, Call("trend", FALSE, None))
    /\ pc' = "enable_raw"
    /\ UNCHANGED <<current_month, previous_month, monthly_trend, error,
                   loading, nav_vars, term_vars, result, last_event>>
    /\ UNCHANGED screen
    /\ UNCHANGED fn_vars

\* get_monthly_trend(6) returns Err(e): logged, not fatal
LoadTrendErr ==
    /\ pc = "load_trend"
    /\ fetched' = Append(fetched, Call("trend", FALSE, None))
    /\ loading' = FALSE
    /\ pc' = "enable_raw"
    /\ UNCHANGED <<current_month, previous_month, monthly_trend, error,
                   nav_vars, term_vars, result, last_event>>
    /\ UNCHANGED screen
    /\ UNCHANGED fn_vars

----------------------------------------------------------------------------
(* App::run: terminal setup.  A `?` on a failed call returns Err at once.  *)

Ok == [ok |-> TRUE, err |-> "-"]
\* the error names the call that failed
Err(e) == [ok |-> FALSE, err |-> e]

Return(r) ==
    /\ pc' = "returned"
    /\ result' = Some(r)

\* enable_raw_mode()?
EnableRawMode(ok) ==
    /\ pc = "enable_raw"
    /\ IF ok
       THEN /\ raw_mode' = TRUE
            /\ pc' = "enter_alt"
            /\ UNCHANGED result
       ELSE /\ Return(Err("enable_raw_mode"))
            /\ UNCHANGED raw_mode
    /\ UNCHANGED <<data_vars, nav_vars, alt_screen, raw_disables, alt_leaves,
                   fetched, last_event>>
    /\ UNCHANGED screen
    /\ UNCHANGED fn_vars

\* execute!(stdout, EnterAlternateScreen)?
EnterAlternateScreen(ok) ==
    /\ pc = "enter_alt"
    /\ IF ok
       THEN /\ alt_screen' = TRUE
            /\ pc' = "terminal_new"
            /\ UNCHANGED result
       ELSE /\ Return(Err("EnterAlternateScreen"))
            /\ UNCHANGED alt_screen
    /\ UNCHANGED <<data_vars, nav_vars, raw_mode, raw_disables, alt_leaves,
                   fetched, last_event>>
    /\ UNCHANGED screen
    /\ UNCHANGED fn_vars

\* Terminal::new(backend)?
TerminalNew(ok) ==
    /\ pc = "terminal_new"
    /\ IF ok
       THEN /\ pc' = "loop"
            /\ UNCHANGED result
       ELSE Return(Err("Terminal::new"))
    /\ UNCHANGED <<data_vars, nav_vars, term_vars, fetched, last_event>>
    /\ UNCHANGED screen
    /\ UNCHANGED fn_vars

----------------------------------------------------------------------------
(* app.rs: service names.  A name is the sequence of its characters; the   *)
(* names are ASCII, so a byte index is a character index.                  *)

Amazon_ == <<"A", "m", "a", "z", "o", "n", " ">>
AWS_    == <<"A", "W", "S", " ">>
Amazon  == <<"A", "m", "a", "z", "o", "n">>

starts_with(s, pat) == Len(s) >= Len(pat) /\ SubSeq(s, 1, Len(pat)) = pat

\* str::trim_start_matches: the prefix is removed as often as it matches
RECURSIVE trim_start_matches(_, _)
trim_start_matches(s, pat) ==
    IF starts_with(s, pat)
    THEN trim_start_matches(SubSeq(s, Len(pat) + 1, Len(s)), pat)
    ELSE s

\* "..." stands for the one character U+2026 that format!("{}...") appends
truncate_service_name(name, max_len) ==
    LET stripped == trim_start_matches(
                        trim_start_matches(
                            trim_start_matches(name, Amazon_), AWS_), Amazon)
    IN  IF Len(stripped) > max_len
        THEN SubSeq(stripped, 1, max_len - 1) \o <<"...">>
        ELSE stripped

\* truncate_service_name(&s.service, 40) in the detail table
DetailNameLen == 40
\* truncate_service_name(service, 25) in the trend legend
LegendNameLen == 25

----------------------------------------------------------------------------
(* App::render and the views it composes.  A frame is the selected tab and *)
(* the content panel; a content panel is a record tagged by its kind.       *)

\* const SERVICE_COLORS: [Color; 12]
SERVICE_COLORS ==
    <<"Coral Red", "Turquoise", "Yellow", "Purple", "Pink", "Lime Green",
      "Orange", "Sky Blue", "Salmon", "Cyan", "Lavender", "Teal">>

\* SERVICE_COLORS[i % SERVICE_COLORS.len()], i counted from 0
service_color(i) == SERVICE_COLORS[(i % Len(SERVICE_COLORS)) + 1]

render_loading == [kind |-> "loading"]

render_error(message) == [kind |-> "error", message |-> message]

render_no_data == [kind |-> "no_data"]

\* the summary panel and the ranked table; row i is highlighted when
\* i == self.selected_row
\* variant: the palette is not cycled, rows past its end keep its last color
render_cost_breakdown_no_cycle(data) ==
    [kind     |-> "breakdown",
     period   |-> data.period,
     total    |-> data.total_cost,
     services |-> Len(data.breakdown),
     rows     |-> [i \in 1..Len(data.breakdown) |->
                     [rank     |-> i,
                      color    |-> SERVICE_COLORS[Min(i, Len(SERVICE_COLORS))],
                      service  |-> data.breakdown[i].service,
                      cost     |-> data.breakdown[i].cost,
                      selected |-> (i - 1 = selected_row)]]]

render_cost_breakdown(data) ==
    [kind     |-> "breakdown",
     period   |-> data.period,
     total    |-> data.total_cost,
     services |-> Len(data.breakdown),
     rows     |-> [i \in 1..Len(data.breakdown) |->
                     [rank     |-> i,
                      color    |-> service_color(i - 1),
                      service  |-> data.breakdown[i].service,
                      cost     |-> data.breakdown[i].cost,
                      selected |-> (i - 1 = selected_row)]]]

\* variant: no test of self.loading
render_current_month_unguarded ==
    IF error # None THEN render_error(error[1])
    ELSE IF current_month # None THEN render_cost_breakdown(current_month[1])
    ELSE render_no_data

render_current_month ==
    IF loading THEN render_loading
    ELSE IF error # None THEN render_error(error[1])
    ELSE IF current_month # None THEN render_cost_breakdown(current_month[1])
    ELSE render_no_data

\* variant: the error test of render_current_month, copied
render_previous_month_with_error ==
    IF error # None THEN render_error(error[1])
    ELSE IF previous_month # None
         THEN render_cost_breakdown(previous_month[1])
    ELSE render_no_data

render_previous_month ==
    IF previous_month # None THEN render_cost_breakdown(previous_month[1])
    ELSE render_no_data

\* the month-over-month change of row i (0-based), as the exact fraction
\* num / den of a percentage: ((d.total_cost - prev) / prev) * 100.0
trend_change(trend, i) ==
    IF i > 0
    THEN LET prev == trend[i].total_cost
         IN  IF prev > 0
             THEN [num |-> (trend[i + 1].total_cost - prev) * 100, den |-> prev]
             ELSE [num |-> 0, den |-> 1]
    ELSE [num |-> 0, den |-> 1]

\* variant: the bands include their ends
change_style_inclusive(change) ==
    IF change.num >= 10 * change.den THEN "increase"
    ELSE IF change.num <= (-10) * change.den THEN "decrease"
    ELSE "neutral"

\* change > 10.0 red, change < -10.0 green, yellow otherwise
change_style(change) ==
    IF change.num > 10 * change.den THEN "increase"
    ELSE IF change.num < (-10) * change.den THEN "decrease"
    ELSE "neutral"

\* variant: the change is formatted for every row, the first included
trend_row_first_change(trend, i) ==
    [period     |-> trend[i + 1].period,
     total      |-> trend[i + 1].total_cost,
     is_current |-> (i = Len(trend) - 1),
     change_str |-> Some(trend_change(trend, i)),
     style      |-> change_style(trend_change(trend, i))]

\* one row of the monthly totals table, for the 0-based index i
trend_row(trend, i) ==
    [period     |-> trend[i + 1].period,
     total      |-> trend[i + 1].total_cost,
     is_current |-> (i = Len(trend) - 1),
     change_str |-> IF i > 0 THEN Some(trend_change(trend, i)) ELSE None,
     style      |-> change_style(trend_change(trend, i))]

\* the place of a service among the top services, counted from 0
RECURSIVE position(_, _)
position(top_services, service) ==
    IF top_services[1] = service THEN 0
    ELSE 1 + position(Tail(top_services), service)

\* one bar group per month, one bar per top service: the service's cost in
\* that month, 0.0 when the month does not have it, in the color
\* service_colors holds for the service
trend_bars(trend, top_services) ==
    [m \in 1..Len(trend) |->
        [s \in 1..Len(top_services) |->
            [service |-> top_services[s],
             color   |-> service_color(position(top_services, top_services[s])),
             value   |-> ServiceCostIn(trend[m].breakdown, top_services[s])]]]

\* the chart, the legend and the monthly totals of a trend that is not empty
trend_panel(trend, order) ==
    LET top_services == get_top_services_across_months(trend, order)
    IN  [kind   |-> "trend",
         bars   |-> trend_bars(trend, top_services),
         legend |-> top_services,
         legend_colors |-> [i \in 1..Len(top_services) |-> service_color(i - 1)],
         rows   |-> [i \in 1..Len(trend) |-> trend_row(trend, i - 1)]]

render_trend(order) ==
    IF monthly_trend = <<>> THEN render_no_data
    ELSE trend_panel(monthly_trend, order)

render(order) ==
    [tab     |-> selected_tab,
     content |-> CASE selected_tab = 0 -> render_current_month
                   [] selected_tab = 1 -> render_previous_month
                   [] selected_tab = 2 -> render_trend(order)
                   [] OTHER -> [kind |-> "blank"]]

\* the iteration orders of the map render_trend may build
RenderOrders ==
    IF selected_tab = 2 /\ monthly_trend # <<>>
    THEN HashIterOrders(TrendServices(monthly_trend))
    ELSE {<<>>}

----------------------------------------------------------------------------
(* App::run: the main loop *)

\* variant: the loop does not test should_quit
DrawIgnoringQuit(ok, order) ==
    /\ pc = "loop"
    /\ IF ok
       THEN /\ screen' = Some(render(order))
            /\ pc' = "input"
            /\ UNCHANGED result
       ELSE /\ Return(Err("terminal.draw"))
            /\ UNCHANGED screen
    /\ UNCHANGED fn_vars
    /\ UNCHANGED <<data_vars, nav_vars, term_vars, fetched, last_event>>
    /\ UNCHANGED fn_vars

\* while !self.should_quit { terminal.draw(|f| self.render(f))?; ...
\* order is the iteration order of the map render_trend builds
Draw(ok, order) ==
    /\ pc = "loop"
    /\ ~should_quit
    /\ IF ok
       THEN /\ screen' = Some(render(order))
            /\ pc' = "input"
            /\ UNCHANGED result
       ELSE /\ Return(Err("terminal.draw"))
            /\ UNCHANGED screen
    /\ UNCHANGED fn_vars
    /\ UNCHANGED <<data_vars, nav_vars, term_vars, fetched, last_event>>
    /\ UNCHANGED fn_vars

----------------------------------------------------------------------------
(* App::handle_input *)

KeyCodes == {"q", "Esc", "Tab", "Right", "BackTab", "Left", "Down", "j",
             "Up", "k", "Home", "g", "End", "G", "x"}
\* codes of the key events that are not presses
ReleaseCodes == {"Tab", "j"}

Event(poll, read, kind, code) ==
    [poll |-> poll, read |-> read, kind |-> kind, code |-> code]
KeyPress(code) == Event("ready", "Key", "Press", code)

\* variant: stops at the last tab
NextTabNoWrap(tab) == Min(tab + 1, NumTabs - 1)
NextTab(tab) == (tab + 1) % NumTabs
\* variant: stops at the first tab
PrevTabNoWrap(tab) == saturating_sub(tab, 1)
PrevTab(tab) == IF tab = 0 THEN 2 ELSE tab - 1
\* variant: compares with the row count, not the last index
RowDownPastLast(row, max_rows) ==
    IF row < max_rows THEN row + 1 ELSE row
RowDown(row, max_rows) ==
    IF row < saturating_sub(max_rows, 1) THEN row + 1 ELSE row
\* variant: no guard against row 0
RowUpUnguarded(row) == row - 1
RowUp(row) == IF row > 0 THEN row - 1 ELSE row
RowHome == 0
\* variant: plain subtraction
RowEndUnsaturated(max_rows) == max_rows - 1
\* variant: the row count, not the last index
RowEndPastLast(max_rows) == max_rows
RowEnd(max_rows) == saturating_sub(max_rows, 1)

\* the iteration orders of the map get_current_breakdown_len may build
BreakdownLenOrders ==
    IF selected_tab = 2 THEN HashIterOrders(TrendServices(monthly_trend))
    ELSE {<<>>}

\* event::poll(100ms)? fails
PollErr ==
    /\ pc = "input"
    /\ last_event' = Some(Event("Err", "-", "-", "-"))
    /\ Return(Err("event::poll"))
    /\ UNCHANGED <<data_vars, nav_vars, term_vars, fetched>>
    /\ UNCHANGED screen
    /\ UNCHANGED fn_vars

\* variant: a poll that times out is repeated until an event arrives
PollTimeoutRetries ==
    /\ pc = "input"
    /\ last_event' = Some(Event("timeout", "-", "-", "-"))
    /\ pc' = "input"
    /\ UNCHANGED <<data_vars, nav_vars, term_vars, fetched, result>>
    /\ UNCHANGED screen
    /\ UNCHANGED fn_vars

\* event::poll(100ms)? returns false
PollTimeout ==
    /\ pc = "input"
    /\ last_event' = Some(Event("timeout", "-", "-", "-"))
    /\ pc' = "loop"
    /\ UNCHANGED <<data_vars, nav_vars, term_vars, fetched, result>>
    /\ UNCHANGED screen
    /\ UNCHANGED fn_vars

\* event::read()? fails
ReadErr ==
    /\ pc = "input"
    /\ last_event' = Some(Event("ready", "Err", "-", "-"))
    /\ Return(Err("event::read"))
    /\ UNCHANGED <<data_vars, nav_vars, term_vars, fetched>>
    /\ UNCHANGED screen
    /\ UNCHANGED fn_vars

\* event::read()? returns an event that is not Event::Key
NonKeyEvent ==
    /\ pc = "input"
    /\ last_event' = Some(Event("ready", "Resize", "-", "-"))
    /\ pc' = "loop"
    /\ UNCHANGED <<data_vars, nav_vars, term_vars, fetched, result>>
    /\ UNCHANGED screen
    /\ UNCHANGED fn_vars

\* variant: the kind of the key event is not tested, a release of Tab
\* changes the tab as a press does
KeyNotPressHandled(code) ==
    /\ pc = "input"
    /\ last_event' = Some(Event("ready", "Key", "Release", code))
    /\ selected_tab' = (IF code = "Tab" THEN NextTab(selected_tab)
                        ELSE selected_tab)
    /\ selected_row' = (IF code = "Tab" THEN 0 ELSE selected_row)
    /\ pc' = "loop"
    /\ UNCHANGED <<data_vars, should_quit, term_vars, fetched, result>>
    /\ UNCHANGED screen
    /\ UNCHANGED fn_vars

\* a key event whose kind is not KeyEventKind::Press
KeyNotPress(code) ==
    /\ pc = "input"
    /\ last_event' = Some(Event("ready", "Key", "Release", code))
    /\ pc' = "loop"
    /\ UNCHANGED <<data_vars, nav_vars, term_vars, fetched, result>>
    /\ UNCHANGED screen
    /\ UNCHANGED fn_vars

\* variant: quitting drops the trend
KeyQuitDropsTrend(code) ==
    /\ pc = "input"
    /\ code \in {"q", "Esc"}
    /\ last_event' = Some(KeyPress(code))
    /\ should_quit' = TRUE
    /\ monthly_trend' = <<>>
    /\ pc' = "loop"
    /\ UNCHANGED <<current_month, previous_month, error, loading,
                   selected_tab, selected_row, term_vars, fetched, result>>
    /\ UNCHANGED screen
    /\ UNCHANGED fn_vars

\* KeyCode::Char('q') | KeyCode::Esc
KeyQuit(code) ==
    /\ pc = "input"
    /\ code \in {"q", "Esc"}
    /\ last_event' = Some(KeyPress(code))
    /\ should_quit' = TRUE
    /\ pc' = "loop"
    /\ UNCHANGED <<data_vars, selected_tab, selected_row, term_vars, fetched,
                   result>>
    /\ UNCHANGED screen
    /\ UNCHANGED fn_vars

\* variant: leaving a tab dismisses the error
KeyNextTabClearsError(code) ==
    /\ pc = "input"
    /\ code \in {"Tab", "Right"}
    /\ last_event' = Some(KeyPress(code))
    /\ selected_tab' = NextTab(selected_tab)
    /\ selected_row' = 0
    /\ error' = None
    /\ pc' = "loop"
    /\ UNCHANGED <<current_month, previous_month, monthly_trend, loading,
                   should_quit, term_vars, fetched, result>>
    /\ UNCHANGED screen
    /\ UNCHANGED fn_vars

\* KeyCode::Tab | KeyCode::Right
KeyNextTab(code) ==
    /\ pc = "input"
    /\ code \in {"Tab", "Right"}
    /\ last_event' = Some(KeyPress(code))
    /\ selected_tab' = NextTab(selected_tab)
    /\ selected_row' = 0
    /\ pc' = "loop"
    /\ UNCHANGED <<data_vars, should_quit, term_vars, fetched, result>>
    /\ UNCHANGED screen
    /\ UNCHANGED fn_vars

\* KeyCode::BackTab | KeyCode::Left
KeyPrevTab(code) ==
    /\ pc = "input"
    /\ code \in {"BackTab", "Left"}
    /\ last_event' = Some(KeyPress(code))
    /\ selected_tab' = PrevTab(selected_tab)
    /\ selected_row' = 0
    /\ pc' = "loop"
    /\ UNCHANGED <<data_vars, should_quit, term_vars, fetched, result>>
    /\ UNCHANGED screen
    /\ UNCHANGED fn_vars

\* KeyCode::Down | KeyCode::Char('j')
KeyDown(code, order) ==
    /\ pc = "input"
    /\ code \in {"Down", "j"}
    /\ last_event' = Some(KeyPress(code))
    /\ selected_row' = RowDown(selected_row, get_current_breakdown_len(order))
    /\ pc' = "loop"
    /\ UNCHANGED <<data_vars, selected_tab, should_quit, term_vars, fetched,
                   result>>
    /\ UNCHANGED screen
    /\ UNCHANGED fn_vars

\* KeyCode::Up | KeyCode::Char('k')
KeyUp(code) ==
    /\ pc = "input"
    /\ code \in {"Up", "k"}
    /\ last_event' = Some(KeyPress(code))
    /\ selected_row' = RowUp(selected_row)
    /\ pc' = "loop"
    /\ UNCHANGED <<data_vars, selected_tab, should_quit, term_vars, fetched,
                   result>>
    /\ UNCHANGED screen
    /\ UNCHANGED fn_vars

\* KeyCode::Home | KeyCode::Char('g')
KeyHome(code) ==
    /\ pc = "input"
    /\ code \in {"Home", "g"}
    /\ last_event' = Some(KeyPress(code))
    /\ selected_row' = RowHome
    /\ pc' = "loop"
    /\ UNCHANGED <<data_vars, selected_tab, should_quit, term_vars, fetched,
                   result>>
    /\ UNCHANGED screen
    /\ UNCHANGED fn_vars

\* KeyCode::End | KeyCode::Char('G')
KeyEnd(code, order) ==
    /\ pc = "input"
    /\ code \in {"End", "G"}
    /\ last_event' = Some(KeyPress(code))
    /\ selected_row' = RowEnd(get_current_breakdown_len(order))
    /\ pc' = "loop"
    /\ UNCHANGED <<data_vars, selected_tab, should_quit, term_vars, fetched,
                   result>>
    /\ UNCHANGED screen
    /\ UNCHANGED fn_vars

\* _ => {}
KeyOther(code) ==
    /\ pc = "input"
    /\ code \notin {"q", "Esc", "Tab", "Right", "BackTab", "Left", "Down",
                    "j", "Up", "k", "Home", "g", "End", "G"}
    /\ last_event' = Some(KeyPress(code))
    /\ pc' = "loop"
    /\ UNCHANGED <<data_vars, nav_vars, term_vars, fetched, result>>
    /\ UNCHANGED screen
    /\ UNCHANGED fn_vars

----------------------------------------------------------------------------
(* App::run: restoring the terminal after the loop *)

\* disable_raw_mode()?
DisableRawMode(ok) ==
    /\ pc = "loop"
    /\ should_quit
    /\ IF ok
       THEN /\ raw_mode' = FALSE
            /\ raw_disables' = raw_disables + 1
            /\ pc' = "leave_alt"
            /\ UNCHANGED result
       ELSE /\ Return(Err("disable_raw_mode"))
            /\ UNCHANGED <<raw_mode, raw_disables>>
    /\ UNCHANGED <<data_vars, nav_vars, alt_screen, alt_leaves, fetched,
                   last_event>>
    /\ UNCHANGED screen
    /\ UNCHANGED fn_vars

\* execute!(terminal.backend_mut(), LeaveAlternateScreen)?
LeaveAlternateScreen(ok) ==
    /\ pc = "leave_alt"
    /\ IF ok
       THEN /\ alt_screen' = FALSE
            /\ alt_leaves' = alt_leaves + 1
            /\ pc' = "show_cursor"
            /\ UNCHANGED result
       ELSE /\ Return(Err("LeaveAlternateScreen"))
            /\ UNCHANGED <<alt_screen, alt_leaves>>
    /\ UNCHANGED <<data_vars, nav_vars, raw_mode, raw_disables, fetched,
                   last_event>>
    /\ UNCHANGED screen
    /\ UNCHANGED fn_vars

\* terminal.show_cursor()?; Ok(())
ShowCursor(ok) ==
    /\ pc = "show_cursor"
    /\ Return(IF ok THEN Ok ELSE Err("show_cursor"))
    /\ UNCHANGED <<data_vars, nav_vars, term_vars, fetched, last_event>>
    /\ UNCHANGED screen
    /\ UNCHANGED fn_vars

----------------------------------------------------------------------------

Next ==
    \/ \E n \in 0..MaxBreakdown : LoadCurrentOk(n)
    \/ LoadCurrentErr
    \/ \E n \in 0..MaxBreakdown : LoadPreviousOk(n)
    \/ LoadPreviousErr
    \/ \E failed \in FailedMonthSets : LoadTrendOk(failed)
    \/ LoadTrendErr
    \/ \E ok \in BOOLEAN : EnableRawMode(ok)
    \/ \E ok \in BOOLEAN : EnterAlternateScreen(ok)
    \/ \E ok \in BOOLEAN : TerminalNew(ok)
    \/ \E ok \in BOOLEAN, order \in RenderOrders : Draw(ok, order)
    \/ PollErr
    \/ PollTimeout
    \/ ReadErr
    \/ NonKeyEvent
    \/ \E code \in ReleaseCodes : KeyNotPress(code)
    \/ \E code \in KeyCodes : KeyQuit(code)
    \/ \E code \in KeyCodes : KeyNextTab(code)
    \/ \E code \in KeyCodes : KeyPrevTab(code)
    \/ \E code \in KeyCodes, order \in BreakdownLenOrders : KeyDown(code, order)
    \/ \E code \in KeyCodes : KeyUp(code)
    \/ \E code \in KeyCodes : KeyHome(code)
    \/ \E code \in KeyCodes, order \in BreakdownLenOrders : KeyEnd(code, order)
    \/ \E code \in KeyCodes : KeyOther(code)
    \/ \E ok \in BOOLEAN : DisableRawMode(ok)
    \/ \E ok \in BOOLEAN : LeaveAlternateScreen(ok)
    \/ \E ok \in BOOLEAN : ShowCursor(ok)

Spec == Init /\ [][Next]_vars

\* App::new, App::load_data and App::run are public: run() on an App that
\* load_data was never called on
RunWithoutLoad ==
    /\ pc = "load_data"
    /\ pc' = "enable_raw"
    /\ UNCHANGED <<data_vars, nav_vars, term_vars, result, fetched,
                   last_event, screen>>
    /\ UNCHANGED fn_vars

ApiNext == Next \/ RunWithoutLoad

\* every use of App's public interface: new(), then run() with or without a
\* load_data() before it
ApiSpec == Init /\ [][ApiNext]_vars

\* the straight-line code after run()'s loop is executed: each of the three
\* restoring calls, once reached, is made
FairSpec ==
    /\ Spec
    /\ WF_vars(\E ok \in BOOLEAN : DisableRawMode(ok))
    /\ WF_vars(\E ok \in BOOLEAN : LeaveAlternateScreen(ok))
    /\ WF_vars(\E ok \in BOOLEAN : ShowCursor(ok))

----------------------------------------------------------------------------
(* Functions called on their own: arg is the call, ret what it returned.   *)
(* The program's own variables stay as App::new() left them.               *)

prog_vars == <<data_vars, nav_vars, term_vars, pc, result, fetched,
               last_event, screen>>

\* a CostData of which only the total matters
MonthOf(period, total) ==
    [period |-> period, total_cost |-> total, breakdown |-> <<>>]

\* monthly totals, in thousandths: none, and totals 10% apart or just beyond
ChangeTotals == {0, 899, 900, 1000, 1100, 1101}

\* the closure of render_trend's rows.map(|(i, d)| ...) on a two-month trend
TrendChangeCalls ==
    {[fn    |-> "trend_change",
      trend |-> <<MonthOf(1, a), MonthOf(0, b)>>,
      i     |-> i] : a \in ChangeTotals, b \in ChangeTotals, i \in 0..1}

\* let change = ...; let change_style = ...
CallTrendChange ==
    /\ arg # None
    /\ arg[1].fn = "trend_change"
    /\ ret = None
    /\ ret' = Some([change |-> trend_change(arg[1].trend, arg[1].i),
                    style  |-> change_style(
                                   trend_change(arg[1].trend, arg[1].i))])
    /\ UNCHANGED <<prog_vars, arg>>

\* the amounts a group may carry, in thousandths: a credit, nothing, the
\* threshold itself (0.001), and billable amounts, one of them twice over
GroupAmounts == {-500, 0, CostThreshold, 500, 1000}

\* a response has up to MaxGroups groups; group k names service k
MaxGroups == 3

GroupsOf(n) ==
    {[k \in 1..n |-> [service |-> k, cost |-> amounts[k]]] :
        amounts \in [1..n -> GroupAmounts]}

CostsForPeriodCalls ==
    {[fn |-> "get_costs_for_period", groups |-> g] :
        g \in UNION {GroupsOf(n) : n \in 0..MaxGroups}}

\* self.get_costs_for_period(time_period, &period_name), the response given
CallGetCostsForPeriod ==
    /\ arg # None
    /\ arg[1].fn = "get_costs_for_period"
    /\ ret = None
    /\ ret' = Some(get_costs_for_period(arg[1].groups, 0))
    /\ UNCHANGED <<prog_vars, arg>>

\* service names: a vendor prefix, or none, then up to MaxNameLen characters
MaxNameLen == 42

NamePrefixes == {<<>>, Amazon_, AWS_, Amazon, Amazon_ \o AWS_, AWS_ \o Amazon_}

ServiceNameCalls ==
    {[fn   |-> "truncate_service_name",
      name |-> prefix \o [k \in 1..n |-> "x"]] :
        prefix \in NamePrefixes, n \in 0..MaxNameLen}

\* the two places a service name is shown: a row of the detail table and a
\* line of the trend legend
CallTruncateServiceName ==
    /\ arg # None
    /\ arg[1].fn = "truncate_service_name"
    /\ ret = None
    /\ ret' = Some(
          [detail |-> truncate_service_name(arg[1].name, DetailNameLen),
           legend |-> truncate_service_name(arg[1].name, LegendNameLen)])
    /\ UNCHANGED <<prog_vars, arg>>

\* a detail table has up to MaxRows rows, more than the palette has colors
MaxRows == 14

BreakdownCalls ==
    {[fn   |-> "render_cost_breakdown",
      data |-> get_costs_for_period(Response(1, n), 0)] : n \in 0..MaxRows}

\* self.render_cost_breakdown(frame, area, data)
CallRenderCostBreakdown ==
    /\ arg # None
    /\ arg[1].fn = "render_cost_breakdown"
    /\ ret = None
    /\ ret' = Some(render_cost_breakdown(arg[1].data))
    /\ UNCHANGED <<prog_vars, arg>>

\* the trends load_data may store, each with the orders its map may have
TrendPanelCalls ==
    UNION {{[fn    |-> "render_trend",
             trend |-> get_monthly_trend(TrendMonths, failed),
             order |-> order] :
                order \in HashIterOrders(TrendServices(
                              get_monthly_trend(TrendMonths, failed)))} :
           failed \in FailedMonthSets \ {0..(TrendMonths - 1)}}

\* self.render_trend(frame, area) for a trend that is not empty
CallRenderTrend ==
    /\ arg # None
    /\ arg[1].fn = "render_trend"
    /\ ret = None
    /\ ret' = Some(trend_panel(arg[1].trend, arg[1].order))
    /\ UNCHANGED <<prog_vars, arg>>

\* the days get_monthly_trend may be called on: every day of two years, one
\* of them a leap year
FirstYear == 2023
LastYear == 2024

Dates ==
    {d \in [year : FirstYear..LastYear, month : 1..12, day : 1..31] :
        d.day <= DaysInMonth(d.year, d.month)}

MonthlyTrendCalls ==
    {[fn |-> "get_monthly_trend", today |-> today, failed |-> failed] :
        today \in Dates, failed \in FailedMonthSets}

\* client.get_monthly_trend(6)
CallGetMonthlyTrend ==
    /\ arg # None
    /\ arg[1].fn = "get_monthly_trend"
    /\ ret = None
    /\ ret' = Some(get_monthly_trend_on(arg[1].today, TrendMonths,
                                        arg[1].failed))
    /\ UNCHANGED <<prog_vars, arg>>

FnCalls ==
    MonthlyTrendCalls \cup TrendChangeCalls \cup CostsForPeriodCalls \cup ServiceNameCalls
        \cup BreakdownCalls \cup TrendPanelCalls

FnInit ==
    /\ AppNew
    /\ \E c \in FnCalls : arg = Some(c)
    /\ ret = None

FnNext ==
    \/ CallTrendChange
    \/ CallGetCostsForPeriod
    \/ CallTruncateServiceName
    \/ CallRenderCostBreakdown
    \/ CallRenderTrend
    \/ CallGetMonthlyTrend

FnSpec == FnInit /\ [][FnNext]_vars

----------------------------------------------------------------------------
(* Properties *)

\* load_data has returned
LoadReturned == pc \notin {"load_data", "load_previous", "load_trend"}

\* the number of rows the active tab shows: the breakdown length of the
\* current (tab 0) or previous (tab 1) summary, 0 when it is absent, and the
\* number of top services across the trend (tab 2)
VisibleRows ==
    CASE selected_tab = 0 ->
            IF current_month = None THEN 0 ELSE Len(current_month[1].breakdown)
      [] selected_tab = 1 ->
            IF previous_month = None THEN 0 ELSE Len(previous_month[1].breakdown)
      [] selected_tab = 2 ->
            Min(TopServices, Cardinality(TrendServices(monthly_trend)))
      [] OTHER -> 0

\* this step is handle_input consuming a press of one of the given keys
Pressed(codes) ==
    /\ pc = "input"
    /\ last_event' \in {Some(KeyPress(c)) : c \in codes}

\* the ways run() leaves its loop: normal quit, or a propagated failure of
\* terminal.draw, event::poll or event::read
LoopExits ==
    {Ok, Err("terminal.draw"), Err("event::poll"), Err("event::read")}

\* C1: whenever run() has returned from its loop (by quit or by a propagated
\* failure of draw, poll or read), raw mode is off, the alternate screen is
\* left, and each was released exactly once.
DisplayReleasedOnReturn ==
    (pc = "returned" /\ result[1] \in LoopExits)
        => /\ ~raw_mode
           /\ ~alt_screen
           /\ raw_disables = 1
           /\ alt_leaves = 1

\* C2: when the current-month fetch failed, load_data has set error, has
\* made no other fetch, and has left current, previous absent, trend empty
\* and loading false.
LoadFatalBranch ==
    (LoadReturned /\ ~fetched[1].ok)
        => /\ error # None
           /\ Len(fetched) = 1
           /\ fetched[1].op = "current"
           /\ current_month = None
           /\ previous_month = None
           /\ monthly_trend = <<>>
           /\ ~loading

LoadFatalBranchWitness ==
    /\ pc = "enable_raw"
    /\ fetched = <<Call("current", FALSE, None)>>
    /\ error = Some(ErrorMessage)

\* C3: when the current-month fetch succeeded, load_data has attempted both
\* the previous-month and the trend fetch, whatever either returned; current
\* is the fetched summary, previous and trend hold what their own fetch
\* returned (absent / empty on failure), and error is not set.
LoadPartialBranch ==
    (LoadReturned /\ fetched[1].ok)
        => /\ Len(fetched) = 3
           /\ fetched[1].op = "current"
           /\ fetched[2].op = "previous"
           /\ fetched[3].op = "trend"
           /\ current_month = fetched[1].value
           /\ current_month # None
           /\ previous_month = fetched[2].value
           /\ (fetched[2].ok <=> previous_month # None)
           /\ monthly_trend = (IF fetched[3].ok THEN fetched[3].value[1] ELSE <<>>)
           /\ error = None

LoadPartialBranchWitness ==
    /\ pc = "enable_raw"
    /\ Len(fetched) = 3
    /\ ~fetched[2].ok
    /\ fetched[3].ok
    /\ monthly_trend # <<>>
    /\ current_month # None

\* C4: once load_data has returned, loading is false, on every path and in
\* every state of the loop that follows.
LoadingFalseAfterLoad == LoadReturned => ~loading

LoadingFalseAfterLoadWitness ==
    /\ pc = "input"
    /\ ~loading
    /\ Len(fetched) = 3
    /\ ~fetched[3].ok
    /\ last_event # None

\* C5: a press of Tab or Right sets selected_tab to (selected_tab + 1) mod 3
\* and selected_row to 0.
NextTabWraps ==
    [][Pressed({"Tab", "Right"})
          => /\ selected_tab' = (selected_tab + 1) % 3
             /\ selected_row' = 0]_vars

NextTabWrapsWitness ==
    /\ pc = "loop"
    /\ last_event = Some(KeyPress("Tab"))
    /\ selected_tab = 0
    /\ selected_row = 0
    /\ VisibleRows > 1

\* C6: a press of BackTab or Left sets selected_tab to (selected_tab + 2)
\* mod 3 and selected_row to 0; and after any next-tab press, prev-tab leads
\* back to the tab the next-tab press left.
PrevTabWraps ==
    [][/\ Pressed({"BackTab", "Left"})
          => /\ selected_tab' = (selected_tab + 2) % 3
             /\ selected_row' = 0
       /\ Pressed({"Tab", "Right"})
          => PrevTab(selected_tab') = selected_tab]_vars

PrevTabWrapsWitness ==
    /\ pc = "loop"
    /\ last_event = Some(KeyPress("BackTab"))
    /\ selected_tab = 2
    /\ selected_row = 0

\* C7: a press of Down or j adds 1 to selected_row when selected_row is below
\* visible_rows - 1 and otherwise leaves it alone (also with 0 visible rows);
\* selected_tab is unchanged.
RowDownClamps ==
    [][Pressed({"Down", "j"})
          => /\ selected_row' = (IF selected_row < VisibleRows - 1
                                 THEN selected_row + 1 ELSE selected_row)
             /\ selected_row' <= Max(VisibleRows - 1, 0)
             /\ selected_tab' = selected_tab]_vars

RowDownClampsWitness ==
    /\ pc = "loop"
    /\ last_event = Some(KeyPress("Down"))
    /\ selected_tab = 2
    /\ selected_row = TopServices - 1
    /\ selected_row = VisibleRows - 1

\* C8: a press of Up or k subtracts 1 from selected_row when it is above 0
\* and leaves it at 0 otherwise; selected_tab is unchanged.
RowUpClamps ==
    [][Pressed({"Up", "k"})
          => /\ selected_row' = (IF selected_row > 0
                                 THEN selected_row - 1 ELSE 0)
             /\ selected_row' >= 0
             /\ selected_tab' = selected_tab]_vars

RowUpClampsWitness ==
    /\ pc = "loop"
    /\ last_event = Some(KeyPress("Up"))
    /\ selected_row = 1
    /\ VisibleRows > 2

\* C9: a press of End or G sets selected_row to max(visible_rows - 1, 0), a
\* press of Home or g sets it to 0; neither changes selected_tab.
JumpKeys ==
    [][/\ Pressed({"End", "G"})
          => /\ selected_row' = Max(VisibleRows - 1, 0)
             /\ selected_tab' = selected_tab
       /\ Pressed({"Home", "g"})
          => /\ selected_row' = 0
             /\ selected_tab' = selected_tab]_vars

JumpKeysWitness ==
    /\ pc = "loop"
    /\ last_event = Some(KeyPress("End"))
    /\ VisibleRows = 0
    /\ selected_row = 0
    /\ selected_tab = 1

\* C10: in every state after the load, selected_row is at most
\* max(visible_rows - 1, 0) for the active tab.
RowWithinVisibleRows ==
    LoadReturned => (selected_row >= 0 /\ selected_row <= Max(VisibleRows - 1, 0))

RowWithinVisibleRowsWitness ==
    /\ LoadReturned
    /\ selected_tab = 2
    /\ Cardinality(TrendServices(monthly_trend)) > TopServices
    /\ selected_row = TopServices - 1

\* C11: a press of q or Esc sets should_quit and leaves selected_tab and
\* selected_row alone; from then on nothing more is drawn, no further event
\* is read and should_quit stays set; and run() returns.
QuitEndsLoop ==
    /\ [][/\ Pressed({"q", "Esc"})
             => /\ should_quit'
                /\ selected_tab' = selected_tab
                /\ selected_row' = selected_row
          /\ should_quit
             => /\ should_quit'
                /\ screen' = screen
                /\ last_event' = last_event
                /\ pc' # "input"]_vars
    /\ (should_quit ~> pc = "returned")

QuitEndsLoopWitness ==
    /\ pc = "returned"
    /\ should_quit
    /\ last_event = Some(KeyPress("Esc"))
    /\ result = Some(Ok)
    /\ selected_tab = 1
    /\ selected_row = 1

\* the key codes handle_input has a match arm for
RecognizedCodes == {"q", "Esc", "Tab", "Right", "BackTab", "Left", "Down",
                    "j", "Up", "k", "Home", "g", "End", "G"}

\* the outcomes of poll/read that must change nothing: a press of an
\* unrecognized key, a poll that timed out, a key event that is not a press
NoOpEvents ==
    {Some(KeyPress(c)) : c \in KeyCodes \ RecognizedCodes}
    \cup {Some(Event("timeout", "-", "-", "-"))}
    \cup {Some(Event("ready", "Key", "Release", c)) : c \in KeyCodes}

\* C12: an unrecognized key, a poll that times out and a key event that is
\* not a press leave selected_tab, selected_row, should_quit and every data
\* field unchanged.
UnrecognizedInputIsNoOp ==
    [][(pc = "input" /\ last_event' \in NoOpEvents)
          => /\ UNCHANGED <<selected_tab, selected_row, should_quit>>
             /\ UNCHANGED <<current_month, previous_month, monthly_trend,
                            error, loading>>]_vars

UnrecognizedInputIsNoOpWitness ==
    /\ pc = "loop"
    /\ last_event = Some(Event("ready", "Key", "Release", "Tab"))
    /\ selected_tab = 2
    /\ selected_row = 3
    /\ ~should_quit

\* the fields of App
app_vars == <<current_month, previous_month, monthly_trend, selected_tab,
              selected_row, error, loading, should_quit>>

\* C13: the loop alternates between render and input.  handle_input is
\* entered only from a draw, which changes no field of App and leaves on the
\* screen a frame of the very state handle_input will see; handle_input
\* consumes one event and goes back to the loop test (or returns); after the
\* load the fields of App change only in handle_input, the screen only in
\* a draw, and events are consumed only in handle_input.
LoopAlternates ==
    [][/\ pc' = "input"
          => /\ pc = "loop"
             /\ UNCHANGED app_vars
             /\ UNCHANGED last_event
             /\ \E order \in RenderOrders : screen' = Some(render(order))
       /\ pc = "input" => pc' \in {"loop", "returned"}
       /\ (LoadReturned /\ pc # "input") => UNCHANGED app_vars
       /\ pc # "input" => UNCHANGED last_event
       /\ screen' # screen => (pc = "loop" /\ pc' = "input")]_vars

LoopAlternatesWitness ==
    /\ pc = "input"
    /\ last_event = Some(KeyPress("Down"))
    /\ selected_tab = 0
    /\ selected_row = 1
    /\ screen = Some(render(<<>>))
    /\ screen[1].content.kind = "breakdown"
    /\ screen[1].content.rows[2].selected

\* the content panel of the frame on the screen
Content == screen[1].content

\* a frame of the current state with the given tab selected is on the screen
Showing(tab) == pc = "input" /\ selected_tab = tab /\ screen[1].tab = tab

\* the panel is the summary panel plus ranked table of the given summary
IsBreakdownOf(panel, data) ==
    /\ panel.kind = "breakdown"
    /\ panel.period = data.period
    /\ panel.total = data.total_cost
    /\ panel.services = Len(data.breakdown)
    /\ Len(panel.rows) = Len(data.breakdown)
    /\ \A i \in 1..Len(panel.rows) :
          /\ panel.rows[i].rank = i
          /\ panel.rows[i].service = data.breakdown[i].service
          /\ panel.rows[i].cost = data.breakdown[i].cost

\* C14: the CurrentMonth tab shows the loading placeholder if loading, else
\* the error panel if error is set, else the no-data placeholder if current
\* is absent, else the summary panel plus ranked table; so never the error
\* panel while loading and never no-data while error is set.
CurrentMonthView ==
    Showing(0)
        => /\ Content.kind \in {"loading", "error", "no_data", "breakdown"}
           /\ Content.kind = "loading" <=> loading
           /\ Content.kind = "error" <=> (~loading /\ error # None)
           /\ Content.kind = "error" => Content.message = error[1]
           /\ Content.kind = "no_data"
                 <=> (~loading /\ error = None /\ current_month = None)
           /\ Content.kind = "breakdown"
                 <=> (~loading /\ error = None /\ current_month # None)
           /\ Content.kind = "breakdown"
                 => IsBreakdownOf(Content, current_month[1])

CurrentMonthViewWitness ==
    /\ Showing(0)
    /\ loading
    /\ Content.kind = "loading"
    /\ last_event = Some(KeyPress("Tab"))

\* C15: while loading is true, the PreviousMonth tab shows the loading
\* placeholder.
PreviousMonthShowsLoading ==
    (Showing(1) /\ loading) => Content.kind = "loading"

\* C16: the PreviousMonth tab and the Trend tab never show the error panel;
\* with error set, tab 1 shows the no-data placeholder, or the breakdown of
\* the previous month if it is present.
NoErrorPanelOffCurrentMonth ==
    /\ Showing(1)
          => /\ Content.kind # "error"
             /\ previous_month = None => Content.kind = "no_data"
             /\ previous_month # None
                   => IsBreakdownOf(Content, previous_month[1])
    /\ Showing(2) => Content.kind \in {"no_data", "trend"}

NoErrorPanelOffCurrentMonthWitness ==
    /\ Showing(1)
    /\ error # None
    /\ Content.kind = "no_data"

\* the current-month fetch of load_data failed
FatalLoad == LoadReturned /\ ~fetched[1].ok

\* C17: after a fatal load failure no step clears or changes error, every
\* frame of tab 0 shows the error panel with that message, and in every state
\* where handle_input waits for an event the next-tab and prev-tab keys are
\* accepted and move through all three tabs: from tab 0 to 1 and 2, and
\* back to 0.
FatalErrorPersists ==
    /\ [](FatalLoad => error = Some(ErrorMessage))
    /\ []((FatalLoad /\ Showing(0))
             => (Content.kind = "error" /\ Content.message = ErrorMessage))
    /\ []((FatalLoad /\ pc = "input")
             => /\ ENABLED KeyNextTab("Tab")
                /\ ENABLED KeyPrevTab("BackTab"))
    /\ [][FatalLoad
             => /\ error' = error
                /\ Pressed({"Tab", "Right"})
                      => selected_tab' = (CASE selected_tab = 0 -> 1
                                            [] selected_tab = 1 -> 2
                                            [] selected_tab = 2 -> 0)
                /\ Pressed({"BackTab", "Left"})
                      => selected_tab' = (CASE selected_tab = 0 -> 2
                                            [] selected_tab = 1 -> 0
                                            [] selected_tab = 2 -> 1)]_vars

FatalErrorPersistsWitness ==
    /\ FatalLoad
    /\ Showing(0)
    /\ last_event = Some(KeyPress("Tab"))
    /\ Content.kind = "error"

\* monthOverMonthChange(trend, i), i counted from 0, as a fraction num / den:
\* 0 for i = 0 or a previous total of 0, else
\* (trend[i].total - trend[i-1].total) / trend[i-1].total * 100
MonthOverMonthChange(trend, i) ==
    IF i = 0 \/ trend[i].total_cost = 0
    THEN [num |-> 0, den |-> 1]
    ELSE [num |-> 100 * (trend[i + 1].total_cost - trend[i].total_cost),
          den |-> trend[i].total_cost]

SameFraction(a, b) == a.num * b.den = b.num * a.den

\* C18: the Trend tab shows the no-data placeholder iff trend is empty;
\* otherwise its monthly-totals table has one row per trend entry, in trend
\* order; the first row shows no change, every later row i shows
\* monthOverMonthChange(trend, i), and only the last row is emphasized.
TrendView ==
    Showing(2)
        => /\ Content.kind = "no_data" <=> monthly_trend = <<>>
           /\ Content.kind = "trend" <=> monthly_trend # <<>>
           /\ Content.kind = "trend"
                 => /\ Len(Content.rows) = Len(monthly_trend)
                    /\ \A i \in 1..Len(monthly_trend) :
                          LET row == Content.rows[i]
                          IN  /\ row.period = monthly_trend[i].period
                              /\ row.total = monthly_trend[i].total_cost
                              /\ row.is_current <=> i = Len(monthly_trend)
                              /\ i = 1 => row.change_str = None
                              /\ i > 1
                                    => /\ row.change_str # None
                                       /\ SameFraction(row.change_str[1],
                                             MonthOverMonthChange(
                                                 monthly_trend, i - 1))

TrendViewWitness ==
    /\ Showing(2)
    /\ Content.kind = "trend"
    /\ Len(Content.rows) = TrendMonths
    /\ Content.rows[1].change_str = None
    /\ Content.rows[2].change_str # None
    /\ Content.rows[2].change_str[1].num # 0
    /\ Content.rows[TrendMonths].is_current

RECURSIVE SumOver(_, _)
SumOver(f, S) ==
    IF S = {} THEN 0
    ELSE LET x == CHOOSE y \in S : TRUE
         IN  f[x] + SumOver(f, S \ {x})

\* what a service cost in one month: 0 when the month does not have it
CostInMonth(month, s) ==
    LET entries == {k \in 1..Len(month.breakdown) :
                       month.breakdown[k].service = s}
    IN  SumOver([k \in entries |-> month.breakdown[k].cost], entries)

\* the cost of a service summed over all months
SummedCost(trend, s) ==
    SumOver([m \in 1..Len(trend) |-> CostInMonth(trend[m], s)], 1..Len(trend))

\* the services present in at least one month
PresentServices(trend) ==
    {s \in 0..(TrendMonths + TrendWidth + 1) :
        \E m \in 1..Len(trend) : \E k \in 1..Len(trend[m].breakdown) :
            trend[m].breakdown[k].service = s}

\* top is a correct result of topServicesAcrossMonths for the trend
IsTopServices(top, trend) ==
    /\ Len(top) <= 8
    /\ Len(top) = Min(8, Cardinality(PresentServices(trend)))
    /\ \A i, j \in 1..Len(top) : i # j => top[i] # top[j]
    /\ \A i \in 1..Len(top) : top[i] \in PresentServices(trend)
    /\ \A i, j \in 1..Len(top) :
          i < j => SummedCost(trend, top[i]) >= SummedCost(trend, top[j])
    /\ \A s \in PresentServices(trend) :
          (\A i \in 1..Len(top) : top[i] # s)
              => \A i \in 1..Len(top) :
                    SummedCost(trend, s) <= SummedCost(trend, top[i])

\* C19: the top services of an empty trend are the empty list; the top
\* services computed for a frame of the Trend tab are at most 8 distinct
\* names, each present in some month, in descending order of the cost summed
\* over all months (0 for a month without the service), and no service left
\* out has a larger summed cost than one that is in.
TopServicesCorrect ==
    /\ \A order \in HashIterOrders({}) :
          get_top_services_across_months(<<>>, order) = <<>>
    /\ (Showing(2) /\ Content.kind = "trend")
          => IsTopServices(Content.legend, monthly_trend)

TopServicesCorrectWitness ==
    /\ Showing(2)
    /\ Content.kind = "trend"
    /\ Cardinality(PresentServices(monthly_trend)) > 8
    /\ Len(Content.legend) = 8
    /\ \E i \in 1..7 :
          SummedCost(monthly_trend, Content.legend[i])
              = SummedCost(monthly_trend, Content.legend[i + 1])

\* C20: topServicesAcrossMonths is deterministic: any two frames of the
\* Trend tab (the trend never changes between them) list the same top
\* services in the same order.
TopServicesDeterministic ==
    [][(/\ screen # None
        /\ screen' # None
        /\ screen[1].content.kind = "trend"
        /\ screen'[1].content.kind = "trend")
          => screen'[1].content.legend = screen[1].content.legend]_vars

Called(fn) == arg # None /\ arg[1].fn = fn /\ ret # None

\* C21: monthOverMonthChange(trend, i) is 0 for i = 0 whatever the first
\* total is, 0 when the previous total is 0, and otherwise
\* (total[i] - total[i-1]) / total[i-1] * 100; it is an increase above +10,
\* a decrease below -10 and neutral otherwise, +10 and -10 included.
MonthOverMonthChangeBands ==
    Called("trend_change")
        => LET i      == arg[1].i
               cur    == arg[1].trend[i + 1].total_cost
               prev   == IF i > 0 THEN arg[1].trend[i].total_cost ELSE 0
               change == ret[1].change
               style  == ret[1].style
           IN  /\ change.den > 0
               /\ (i = 0 \/ prev = 0) => change.num = 0
               /\ (i > 0 /\ prev # 0)
                     => change.num * prev = 100 * (cur - prev) * change.den
               /\ style = "increase"
                     <=> (i > 0 /\ prev # 0 /\ 100 * (cur - prev) > 10 * prev)
               /\ style = "decrease"
                     <=> (i > 0 /\ prev # 0 /\ 100 * (cur - prev) < (-10) * prev)
               /\ style \in {"increase", "decrease", "neutral"}

MonthOverMonthChangeBandsWitness ==
    /\ Called("trend_change")
    /\ arg[1].i = 1
    /\ arg[1].trend[1].total_cost = 1000
    /\ arg[1].trend[2].total_cost = 1100
    /\ ret[1].style = "neutral"

RECURSIVE GCD(_, _)
GCD(a, b) == IF b = 0 THEN a ELSE GCD(b, a % b)

\* the fraction num / den in lowest terms (den > 0, num >= 0)
Reduced(num, den) ==
    [num |-> num \div GCD(num, den), den |-> den \div GCD(num, den)]

\* the sum of the fractions s[1].percentage, ..., as a fraction
RECURSIVE SumPercentages(_)
SumPercentages(s) ==
    IF s = <<>> THEN [num |-> 0, den |-> 1]
    ELSE LET rest == SumPercentages(Tail(s))
             p    == Reduced(s[1].percentage.num, s[1].percentage.den)
         IN  Reduced(p.num * rest.den + rest.num * p.den, p.den * rest.den)

\* C22: in a CostSummary produced for a period every entry's percentage is
\* cost / total_cost * 100; the percentages sum to 100 when total_cost > 0,
\* and every percentage is 0 when total_cost = 0.
PercentagesOfTotal ==
    Called("get_costs_for_period")
        => LET data == ret[1]
               sum  == SumPercentages(data.breakdown)
           IN  /\ \A k \in 1..Len(data.breakdown) :
                     LET e == data.breakdown[k]
                     IN  /\ e.percentage.den > 0
                         /\ data.total_cost > 0
                               => e.percentage.num * data.total_cost
                                     = e.cost * 100 * e.percentage.den
                         /\ data.total_cost = 0 => e.percentage.num = 0
               /\ data.total_cost > 0 => sum.num = 100 * sum.den
               /\ data.total_cost >= 0

PercentagesOfTotalWitness ==
    /\ Called("get_costs_for_period")
    /\ Len(arg[1].groups) = 3
    /\ Len(ret[1].breakdown) = 2
    /\ ret[1].breakdown[1].cost # ret[1].breakdown[2].cost
    /\ \E k \in 1..3 : arg[1].groups[k].cost = -500

\* the place of the entry for a service among the groups of the response
InputIndex(groups, service) ==
    CHOOSE k \in 1..Len(groups) : groups[k].service = service

\* C23: the breakdown of a CostSummary is sorted descending by cost, entries
\* of equal cost keep the order they had in the response, the breakdown is a
\* permutation of the retained entries of the response, and every retained
\* entry has a cost above 0.
BreakdownSorted ==
    Called("get_costs_for_period")
        => LET groups   == arg[1].groups
               bd       == ret[1].breakdown
               retained == {k \in 1..Len(groups) :
                               groups[k].cost > CostThreshold}
           IN  /\ \A i, j \in 1..Len(bd) :
                     i < j
                        => /\ bd[i].cost >= bd[j].cost
                           /\ bd[i].cost = bd[j].cost
                                 => InputIndex(groups, bd[i].service)
                                       < InputIndex(groups, bd[j].service)
               /\ Len(bd) = Cardinality(retained)
               /\ \A k \in retained :
                     \E i \in 1..Len(bd) :
                        /\ bd[i].service = groups[k].service
                        /\ bd[i].cost = groups[k].cost
               /\ \A i \in 1..Len(bd) : bd[i].cost > 0

BreakdownSortedWitness ==
    /\ Called("get_costs_for_period")
    /\ Len(ret[1].breakdown) = 3
    /\ ret[1].breakdown[1].cost > ret[1].breakdown[2].cost
    /\ ret[1].breakdown[2].cost = ret[1].breakdown[3].cost
    /\ ret[1].breakdown[1].service = 3

\* C24: a service name is shown the same way on every tab: the name in the
\* detail table equals the name in the trend legend.
ServiceNameConsistent ==
    Called("truncate_service_name") => ret[1].detail = ret[1].legend

\* the color at position i (from 0) of the palette, cycling
Palette(i) == SERVICE_COLORS[(i % 12) + 1]

\* C25: colors go by position in a fixed palette of 12, cycling: row i of a
\* detail table has palette[i mod 12]; on the Trend tab the top service at
\* position i has palette[i mod 12] in the legend and in the bar group of
\* every month, so no service has two colors within the trend view.
PaletteByPosition ==
    /\ Len(SERVICE_COLORS) = 12
    /\ \A i, j \in 1..12 : i # j => SERVICE_COLORS[i] # SERVICE_COLORS[j]
    /\ Called("render_cost_breakdown")
          => /\ Len(ret[1].rows) = Len(arg[1].data.breakdown)
             /\ \A i \in 1..Len(ret[1].rows) :
                   ret[1].rows[i].color = Palette(i - 1)
    /\ Called("render_trend")
          => LET panel == ret[1]
                 n     == Len(panel.legend)
             IN  /\ Len(panel.legend_colors) = n
                 /\ Len(panel.bars) = Len(arg[1].trend)
                 /\ \A i \in 1..n : panel.legend_colors[i] = Palette(i - 1)
                 /\ \A m \in 1..Len(panel.bars) :
                       /\ Len(panel.bars[m]) = n
                       /\ \A i \in 1..n :
                             /\ panel.bars[m][i].service = panel.legend[i]
                             /\ panel.bars[m][i].color = Palette(i - 1)
                 /\ \A m \in 1..Len(panel.bars) : \A i, j \in 1..n :
                       panel.bars[m][i].service = panel.legend[j]
                          => panel.bars[m][i].color = panel.legend_colors[j]

PaletteByPositionWitness ==
    /\ Called("render_cost_breakdown")
    /\ Len(ret[1].rows) > 12
    /\ ret[1].rows[13].color = ret[1].rows[1].color
    /\ ret[1].rows[12].color # ret[1].rows[1].color

\* C26: input handling changes only navigation state: whatever the event,
\* current_month, previous_month, monthly_trend, error and loading are left
\* as they are; rendering changes no field of App; so after the load only
\* selected_tab, selected_row and should_quit ever change.
InputChangesNavigationOnly ==
    [][/\ pc = "input" => UNCHANGED data_vars
       /\ (pc = "loop" /\ pc' = "input") => UNCHANGED app_vars
       /\ LoadReturned => UNCHANGED data_vars]_vars

InputChangesNavigationOnlyWitness ==
    /\ pc = "loop"
    /\ should_quit
    /\ last_event = Some(KeyPress("q"))
    /\ screen # None
    /\ selected_tab = 2
    /\ selected_row = 2
    /\ current_month # None
    /\ previous_month # None
    /\ Len(monthly_trend) = TrendMonths

\* the number of a calendar month, counted across years
MonthNumber(p) == p.year * 12 + p.month

\* C27: get_monthly_trend(n) returns summaries oldest to newest for distinct,
\* consecutive calendar months ending with the current month, whatever the
\* day it is called on: no month is there twice, no month between the oldest
\* and the current one is skipped unless its fetch failed, and with failed
\* fetches omitted the result has at most n entries.
TrendMonthsConsecutive ==
    Called("get_monthly_trend")
        => LET trend   == ret[1]
               current == MonthNumber(arg[1].today)
               asked   == {current - i : i \in 0..(TrendMonths - 1)}
               fetched_months ==
                   {current - i : i \in (0..(TrendMonths - 1)) \ arg[1].failed}
           IN  /\ Len(trend) <= TrendMonths
               /\ \A j, k \in 1..Len(trend) :
                     j < k => MonthNumber(trend[j].period)
                                 < MonthNumber(trend[k].period)
               /\ {MonthNumber(trend[k].period) : k \in 1..Len(trend)}
                     = fetched_months

====
